---- MODULE Spec2Model ----
(***************************************************************************)
(* Grain Size Distribution dashboard (src/dashv1.py).                      *)
(*                                                                         *)
(* The module models                                                       *)
(*   - the two per-sample functions compute_d_values / texture_fractions,  *)
(*   - the start-up pipeline (melt, SampleStats, group mean/std, the       *)
(*     borehole -> formations lookup),                                     *)
(*   - the two Dash callbacks update_formation_options / update_dashboard. *)
(*                                                                         *)
(* Numbers.  Size and Percent_Volume are floats in the program; the model  *)
(* draws them from small sets of integers and computes every derived       *)
(* quantity exactly, as a reduced fraction <<num, den>> with den > 0.      *)
(* A missing value (NaN) is the empty tuple, a present value v is <<v>>.   *)
(* A Python value that may be an int or a str is the pair <<type, value>>. *)
(***************************************************************************)
EXTENDS Integers, Sequences, FiniteSets, TLC

VARIABLES
    df,                      \* the raw table read from the CSV (line 36)
    df2,                     \* the long table (lines 38-46)
    df_stats,                \* SampleStats (line 63)
    mean_sd_df,              \* group mean / std table (line 65)
    formations_by_borehole,  \* lookup BoreholeID -> formations (line 66)
    call,                    \* the callback invocation last served
    ret,                     \* what that invocation returned or raised
    sample,                  \* one sample's readings (argument df_sample / g)
    sort_order,              \* the row order sort_values gave for sample
    d_vals,                  \* outcome of compute_d_values on sample
    tex_vals                 \* outcome of texture_fractions on sample

vars == <<df, df2, df_stats, mean_sd_df, formations_by_borehole, call, ret,
          sample, sort_order, d_vals, tex_vals>>

-----------------------------------------------------------------------------
(* Values *)

NaN == <<>>
Num(v) == <<v>>
IsNaN(x) == x = NaN
Val(x) == x[1]

PyStr(s) == <<"str", s>>
PyInt(n) == <<"int", n>>

\* Decimal digits of the small integers used as borehole identifiers.
Digits == [n \in 0..9 |-> CASE n = 0 -> "0" [] n = 1 -> "1" [] n = 2 -> "2"
                            [] n = 3 -> "3" [] n = 4 -> "4" [] n = 5 -> "5"
                            [] n = 6 -> "6" [] n = 7 -> "7" [] n = 8 -> "8"
                            [] OTHER -> "9"]

\* str(b): a str is returned as it is, an int becomes its decimal text.
Str(b) == IF b[1] = "str" THEN b ELSE PyStr(Digits[b[2]])

-----------------------------------------------------------------------------
(* Exact fractions *)

Abs(n) == IF n < 0 THEN -n ELSE n

RECURSIVE Gcd(_, _)
Gcd(a, b) == IF b = 0 THEN a ELSE Gcd(b, a % b)

Frac(n, d) ==
    LET s == IF d < 0 THEN -1 ELSE 1
        k == Gcd(Abs(n), Abs(d))
    IN  <<(s * n) \div k, (s * d) \div k>>

FracLe(a, b) == a[1] * b[2] <= b[1] * a[2]
FracAdd(a, b) == Frac(a[1] * b[2] + b[1] * a[2], a[2] * b[2])

-----------------------------------------------------------------------------
(* Sequence helpers *)

RECURSIVE SumSeq(_)
SumSeq(s) == IF s = <<>> THEN 0 ELSE Head(s) + SumSeq(Tail(s))

Range(s) == {s[i] : i \in DOMAIN s}

\* Series.sum(): missing values are skipped, an empty sum is 0.
PvSum(rows) ==
    SumSeq([i \in DOMAIN rows |->
              IF IsNaN(rows[i].Percent_Volume) THEN 0
              ELSE Val(rows[i].Percent_Volume)])

-----------------------------------------------------------------------------
(* compute_d_values, lines 19-24 *)

\* Order of sort_values("Size"): ascending, missing Size last.
SizeKeyLe(a, b) == IsNaN(b) \/ (~IsNaN(a) /\ Val(a) <= Val(b))

\* sort_values uses the default kind="quicksort", which is not stable: the
\* relative order of rows with equal Size is whatever the build's sort
\* produces.  SortOrders is the set of row orders it may return.
RECURSIVE SortOrdersOf(_, _)
SortOrdersOf(rows, S) ==
    IF S = {} THEN {<<>>}
    ELSE LET least == {i \in S : \A j \in S : SizeKeyLe(rows[i].Size, rows[j].Size)}
         IN  UNION {{<<i>> \o r : r \in SortOrdersOf(rows, S \ {i})} : i \in least}

SortOrders(rows) == SortOrdersOf(rows, DOMAIN rows)

IsValidPoint(r) == ~IsNaN(r.Size) /\ ~IsNaN(r.Percent_Volume)

\* d = df_sample.sort_values("Size").dropna(subset=["Size","Percent_Volume"])
SortedValid(df_sample, order) ==
    SelectSeq([i \in DOMAIN order |-> df_sample[order[i]]], IsValidPoint)

\* d["cum_pct"] = d["Percent_Volume"].cumsum()
CumPct(d) == [i \in DOMAIN d |-> SumSeq([k \in 1..i |-> Val(d[k].Percent_Volume)])]

\* np.interp(target, xp, fp) for a non-empty xp: the end values outside
\* [xp[first], xp[last]], otherwise the segment j with xp[j] <= target <
\* xp[j+1] found by searching upwards from the second key, and the straight
\* line through its two end points.  For non-decreasing keys this is the
\* bracketing segment whatever search the library uses.
InterpIndex(target, xp) ==
    LET later == {i \in 2..Len(xp) : target < xp[i]}
    IN  IF later = {} THEN Len(xp)
        ELSE (CHOOSE i \in later : \A k \in later : i <= k) - 1

\* Interp without the interpolation: the Size of the point at or below target.
InterpStep(target, xp, fp) ==
    LET n == Len(xp)
    IN  IF n = 1 THEN Frac(fp[1], 1)
        ELSE IF target > xp[n] THEN Frac(fp[n], 1)
        ELSE IF target < xp[1] THEN Frac(fp[1], 1)
        ELSE Frac(fp[InterpIndex(target, xp)], 1)

Interp(target, xp, fp) ==
    LET n == Len(xp)
    IN  IF n = 1 THEN Frac(fp[1], 1)
        ELSE IF target > xp[n] THEN Frac(fp[n], 1)
        ELSE IF target < xp[1] THEN Frac(fp[1], 1)
        ELSE LET j == InterpIndex(target, xp)
             IN  IF j = n THEN Frac(fp[j], 1)
                 ELSE IF xp[j] = target THEN Frac(fp[j], 1)
                 ELSE Frac(fp[j] * (xp[j + 1] - xp[j])
                             + (fp[j + 1] - fp[j]) * (target - xp[j]),
                           xp[j + 1] - xp[j])

P10 == 10
P50 == 50
P90 == 90

NoD == [raised |-> "none", D10 |-> NaN, D50 |-> NaN, D90 |-> NaN]

\* The outcome of compute_d_values(df_sample) when sort_values returned the
\* rows in `order`: the three diameters, or the ValueError np.interp raises
\* on an empty array of sample points.
compute_d_values(df_sample, order) ==
    LET d == SortedValid(df_sample, order)
        cum_pct == CumPct(d)
        size == [i \in DOMAIN d |-> Val(d[i].Size)]
    IN  IF Len(d) = 0
        THEN [NoD EXCEPT !.raised = "ValueError"]
        ELSE [raised |-> "none",
              D10 |-> Interp(P10, cum_pct, size),
              D50 |-> Interp(P50, cum_pct, size),
              D90 |-> Interp(P90, cum_pct, size)]

-----------------------------------------------------------------------------
(* texture_fractions, lines 26-30 *)

CLAY_MAX == 4
SILT_MAX == 63
SAND_MAX == 2000

\* A comparison with a missing Size is False, so such a row is in no band.
IsClay(r) == ~IsNaN(r.Size) /\ Val(r.Size) < CLAY_MAX
\* IsSilt with the lower boundary excluded.
IsSiltAbove(r) == ~IsNaN(r.Size) /\ Val(r.Size) > CLAY_MAX /\ Val(r.Size) < SILT_MAX

IsSilt(r) == ~IsNaN(r.Size) /\ Val(r.Size) >= CLAY_MAX /\ Val(r.Size) < SILT_MAX
IsSand(r) == ~IsNaN(r.Size) /\ Val(r.Size) >= SILT_MAX /\ Val(r.Size) <= SAND_MAX

texture_fractions(df_sample) ==
    [Clay |-> PvSum(SelectSeq(df_sample, IsClay)),
     Silt |-> PvSum(SelectSeq(df_sample, IsSilt)),
     Sand |-> PvSum(SelectSeq(df_sample, IsSand))]

-----------------------------------------------------------------------------
(* Text order and parsing *)

\* Python's order on str (by code point), on the strings the model uses.
StrRank(s) == CASE s = "7"  -> 1 [] s = "B1" -> 2 [] s = "B9" -> 3
                [] s = "F1" -> 4 [] s = "F2" -> 5 [] s = "F3" -> 6
                [] s = "S1" -> 7 [] s = "S2" -> 8 [] OTHER -> 9

\* sorted(S) for a set of str.
RECURSIVE Sorted(_)
Sorted(S) ==
    IF S = {} THEN <<>>
    ELSE LET m == CHOOSE x \in S : \A y \in S : StrRank(x) <= StrRank(y)
         IN  <<m>> \o Sorted(S \ {m})

\* pd.to_numeric(label, errors="coerce") on a size-bin column label.
ToNumeric(label) == CASE label = "2"    -> Num(2)
                      [] label = "100"  -> Num(100)
                      [] label = "5000" -> Num(5000)
                      [] OTHER          -> NaN

\* First occurrences of a sequence's values, in order (Series.unique()).
RECURSIVE Unique(_)
Unique(s) ==
    IF s = <<>> THEN <<>>
    ELSE LET r == Unique(SubSeq(s, 1, Len(s) - 1))
         IN  IF s[Len(s)] \in Range(r) THEN r ELSE Append(r, s[Len(s)])

-----------------------------------------------------------------------------
(* LOAD DATA, lines 36-46 *)

\* df.melt(...): one long row per (size column, raw row), column by column,
\* then Size -> to_numeric and BoreholeID -> str.
Melt(raw) ==
    LET n == Len(raw.rows)
        m == Len(raw.columns)
    IN  [k \in 1..(m * n) |->
           LET c == ((k - 1) \div n) + 1
               r == ((k - 1) % n) + 1
           IN  [BoreholeID     |-> Str(raw.rows[r].BoreholeID),
                Formation      |-> raw.rows[r].Formation,
                SampleName     |-> raw.rows[r].SampleName,
                depth          |-> raw.rows[r].depth,
                Size           |-> ToNumeric(raw.columns[c]),
                Percent_Volume |-> raw.rows[r].values[c]]]

-----------------------------------------------------------------------------
(* PRECOMPUTE STATS, lines 51-66 *)

\* The rows of one group of long.groupby("SampleName"), in table order.
SampleGroup(long, name) == SelectSeq(long, LAMBDA r : r.SampleName = name)

\* IsEligible with a total of zero let through.
IsEligibleOrZero(g) == PvSum(g) >= 0

\* if g["Percent_Volume"].sum() > 0
IsEligible(g) == PvSum(g) > 0

\* The dict appended for group g when sort_values returned `order`.
StatsRow(name, g, order) ==
    LET d == compute_d_values(g, order)
        t == texture_fractions(g)
    IN  [D10 |-> d.D10, D50 |-> d.D50, D90 |-> d.D90,
         Clay |-> t.Clay, Silt |-> t.Silt, Sand |-> t.Sand,
         SampleName |-> name,
         Formation  |-> g[1].Formation,
         BoreholeID |-> g[1].BoreholeID]

\* The lists the loop of lines 52-62 can build over the groups `names`
\* (already in groupby's sorted key order): one row per eligible group.
\* An exception of compute_d_values ends the loop and the start-up with
\* it, so a group that raises contributes no list.
RECURSIVE StatsLists(_, _)
StatsLists(long, names) ==
    IF names = <<>> THEN {<<>>}
    ELSE LET g    == SampleGroup(long, Head(names))
             rest == StatsLists(long, Tail(names))
             done == {o \in SortOrders(g) : compute_d_values(g, o).raised = "none"}
         IN  IF IsEligible(g)
             THEN {<<StatsRow(Head(names), g, o)>> \o t : o \in done, t \in rest}
             ELSE rest

StatsColumns == {"D10", "D50", "D90", "Clay", "Silt", "Sand",
                 "SampleName", "Formation", "BoreholeID"}

\* pd.DataFrame(sample_stats): the columns are the keys of the dicts, so a
\* frame built from an empty list has no columns at all.
DataFrame(list) ==
    [columns |-> IF list = <<>> THEN {} ELSE StatsColumns, rows |-> list]

SampleNames(long) == {long[i].SampleName : i \in DOMAIN long}

\* The SampleStats frames a completed start-up can end with.
sample_stats(long) ==
    {DataFrame(l) : l \in StatsLists(long, Sorted(SampleNames(long)))}

\* Series.mean() / Series.std() of a group's Percent_Volume: missing values
\* are skipped; the mean of nothing and the std of fewer than two values
\* are missing.  std is the sample (n-1) deviation, kept as the square root
\* <<"sqrt", num, den>> of the exact variance.
Present(rows) == SelectSeq(rows, LAMBDA r : ~IsNaN(r.Percent_Volume))

Mean(rows) ==
    LET p == Present(rows)
    IN  IF Len(p) = 0 THEN NaN ELSE Frac(PvSum(p), Len(p))

SumSq(rows) ==
    SumSeq([i \in DOMAIN rows |-> Val(rows[i].Percent_Volume) * Val(rows[i].Percent_Volume)])

Std(rows) ==
    LET p == Present(rows)
        n == Len(p)
        v == Frac(n * SumSq(p) - PvSum(p) * PvSum(p), n * (n - 1))
    IN  IF n < 2 THEN NaN ELSE <<"sqrt", v[1], v[2]>>

\* Keys of groupby(["Formation","Size"]): rows with a missing Size are
\* dropped; sorted by Formation, then Size.
SizesOf(rows, f) == {Val(rows[i].Size) : i \in {k \in DOMAIN rows :
                         rows[k].Formation = f /\ ~IsNaN(rows[k].Size)}}

RECURSIVE SortedInts(_)
SortedInts(S) ==
    IF S = {} THEN <<>>
    ELSE LET m == CHOOSE x \in S : \A y \in S : x <= y
         IN  <<m>> \o SortedInts(S \ {m})

RECURSIVE Concat(_)
Concat(ss) == IF ss = <<>> THEN <<>> ELSE Head(ss) \o Concat(Tail(ss))

GroupRow(rows, f, s) ==
    LET grp == SelectSeq(rows, LAMBDA r : r.Formation = f /\ r.Size = Num(s))
    IN  [Formation |-> f, Size |-> s, mean |-> Mean(grp), std |-> Std(grp)]

\* rows.groupby(["Formation","Size"])["Percent_Volume"].agg(["mean","std"])
GroupMeanStd(rows) ==
    LET fs == Sorted({rows[i].Formation : i \in DOMAIN rows})
    IN  Concat([i \in DOMAIN fs |->
                  LET ss == SortedInts(SizesOf(rows, fs[i]))
                  IN  [k \in DOMAIN ss |-> GroupRow(rows, fs[i], ss[k])]])

\* {str(k): v for k, v in long.groupby("BoreholeID")["Formation"].unique()}
FormationsByBorehole(long) ==
    [b \in {long[i].BoreholeID : i \in DOMAIN long} |->
        Unique([k \in DOMAIN SelectSeq(long, LAMBDA r : r.BoreholeID = b) |->
                  SelectSeq(long, LAMBDA r : r.BoreholeID = b)[k].Formation])]

-----------------------------------------------------------------------------
(* Callback arguments and results *)

\* A dropdown value is None or a list; only membership in the list is read.
None == [isNone |-> TRUE, items |-> {}]
List(S) == [isNone |-> FALSE, items |-> S]

\* Truthy as an "is not None" test.
NotNone(v) == ~v.isNone

\* Python truth of a dropdown value: None and the empty list are false.
Truthy(v) == ~v.isNone /\ v.items # {}

\* px.line(title=...), px.scatter_ternary(title=...): a figure with no data.
EmptyFig(title) == [title |-> title, traces |-> <<>>]

-----------------------------------------------------------------------------
(* update_formation_options, lines 138-144 *)

\* formations_by_borehole.get(b, [])
Get(lookup, b) == IF b \in DOMAIN lookup THEN lookup[b] ELSE <<>>

\* OptionFormations without sorted(): first occurrences, borehole by borehole.
OptionFormationsUnsorted(lookup, selected_boreholes) ==
    LET bs == Sorted({Str(b)[2] : b \in selected_boreholes.items})
    IN  Unique(Concat([i \in DOMAIN bs |-> Get(lookup, PyStr(bs[i]))]))

OptionFormations(lookup, selected_boreholes) ==
    Sorted(UNION {Range(Get(lookup, Str(b))) : b \in selected_boreholes.items})

update_formation_options(lookup, selected_boreholes) ==
    IF ~Truthy(selected_boreholes)
    THEN [raised |-> "none", options |-> <<>>, value |-> <<>>]
    ELSE LET formations == OptionFormations(lookup, selected_boreholes)
             options == [i \in DOMAIN formations |->
                           [label |-> formations[i], value |-> formations[i]]]
         IN  [raised |-> "none", options |-> options,
              value |-> [i \in DOMAIN options |-> options[i].value]]

-----------------------------------------------------------------------------
(* update_dashboard, lines 157-251 *)

\* boreholes = [str(b) for b in boreholes]
StrAll(boreholes) == {Str(b) : b \in boreholes.items}

\* dff: lines 163-165
Dff(long, boreholes, formations) ==
    LET byBorehole == SelectSeq(long, LAMBDA r : r.BoreholeID \in StrAll(boreholes))
    IN  IF Truthy(formations)
        THEN SelectSeq(byBorehole, LAMBDA r : r.Formation \in formations.items)
        ELSE byBorehole

\* stats_filtered: lines 166 and 169 (rows of the frame; the column reads
\* that can fail are in StatsKeyError)
StatsFiltered(stats, boreholes, formations) ==
    IF Truthy(formations)
    THEN SelectSeq(stats.rows, LAMBDA r : /\ r.Formation \in formations.items
                                          /\ r.BoreholeID \in StrAll(boreholes))
    ELSE SelectSeq(stats.rows, LAMBDA r : r.BoreholeID \in StrAll(boreholes))

\* df_stats["Formation"], df_stats["BoreholeID"] raise KeyError on a frame
\* that has no such column.
StatsKeyError(stats, formations) ==
    IF Truthy(formations)
    THEN ~({"Formation", "BoreholeID"} \subseteq stats.columns)
    ELSE "BoreholeID" \notin stats.columns

\* mean_sd_filtered: lines 167 and 170
MeanSdFiltered(meansd, formations) ==
    IF Truthy(formations)
    THEN SelectSeq(meansd, LAMBDA r : r.Formation \in formations.items)
    ELSE meansd

FormationRows(rows, formation) == SelectSeq(rows, LAMBDA r : r.Formation = formation)

\* mean +/- std on floats: missing when either operand is missing.
Band(m, sign, s) == IF IsNaN(m) \/ IsNaN(s) THEN NaN ELSE <<sign, m, s>>

\* Grain size plot, lines 177-204: one trace per formation of mean_sd_filtered.
FigSamples(msf) ==
    LET fs == Unique([k \in DOMAIN msf |-> msf[k].Formation])
    IN  [title  |-> "",
         traces |-> [i \in DOMAIN fs |->
                       LET f_data == FormationRows(msf, fs[i])
                       IN  [name |-> <<fs[i]>>,
                            x |-> [k \in DOMAIN f_data |-> f_data[k].Size],
                            y |-> [k \in DOMAIN f_data |-> f_data[k].mean]]]]

\* Mean +/- SD plot, lines 207-218: three traces per formation.
FigMeanSd(msf) ==
    LET fs == Unique([k \in DOMAIN msf |-> msf[k].Formation])
    IN  [title  |-> "Mean +- Standard Deviation per Formation",
         traces |-> Concat([i \in DOMAIN fs |->
                       LET f_data == FormationRows(msf, fs[i])
                           x == [k \in DOMAIN f_data |-> f_data[k].Size]
                       IN  << [name |-> <<fs[i], "Mean">>, x |-> x,
                               y |-> [k \in DOMAIN f_data |-> f_data[k].mean]],
                              [name |-> <<>>, x |-> x,
                               y |-> [k \in DOMAIN f_data |-> Band(f_data[k].mean, "+", f_data[k].std)]],
                              [name |-> <<>>, x |-> x,
                               y |-> [k \in DOMAIN f_data |-> Band(f_data[k].mean, "-", f_data[k].std)]] >>])]

\* line 222: the rows of stats_filtered with Clay + Silt + Sand > 0
WithTexture(rows) == SelectSeq(rows, LAMBDA r : r.Clay + r.Silt + r.Sand > 0)

\* Ternary plot, lines 221-231
FigTern(rows) ==
    IF rows # <<>>
    THEN [title  |-> "Sand-Silt-Clay Composition",
          traces |-> [i \in DOMAIN rows |->
                        [name |-> <<rows[i].Formation, rows[i].SampleName>>,
                         a |-> rows[i].Clay, b |-> rows[i].Sand, c |-> rows[i].Silt]]]
    ELSE EmptyFig("No data for ternary plot")

RECURSIVE FracSum(_)
FracSum(s) == IF s = <<>> THEN Frac(0, 1) ELSE FracAdd(Head(s), FracSum(Tail(s)))

\* Series.mean() of a column of fractions / of numbers (never empty here).
FracMean(s) == LET t == FracSum(s) IN Frac(t[1], t[2] * Len(s))

\* Summary, lines 234-249: the counts and, per formation in sorted order,
\* the column means.  The panel shows each mean through the format ":.1f";
\* the model keeps the value that is formatted.
Summary(rows) ==
    LET fs == Sorted({rows[i].Formation : i \in DOMAIN rows})
    IN  [text       |-> "",
         boreholes  |-> Cardinality({rows[i].BoreholeID : i \in DOMAIN rows}),
         samples    |-> Cardinality({rows[i].SampleName : i \in DOMAIN rows}),
         formations |-> [i \in DOMAIN fs |->
             LET fg == FormationRows(rows, fs[i])
             IN  [Formation |-> fs[i],
                  D10  |-> FracMean([k \in DOMAIN fg |-> fg[k].D10]),
                  D50  |-> FracMean([k \in DOMAIN fg |-> fg[k].D50]),
                  D90  |-> FracMean([k \in DOMAIN fg |-> fg[k].D90]),
                  Clay |-> FracMean([k \in DOMAIN fg |-> Frac(fg[k].Clay, 1)]),
                  Silt |-> FracMean([k \in DOMAIN fg |-> Frac(fg[k].Silt, 1)]),
                  Sand |-> FracMean([k \in DOMAIN fg |-> Frac(fg[k].Sand, 1)])]]]

TextOnly(t) == [text |-> t, boreholes |-> 0, samples |-> 0, formations |-> <<>>]

Placeholder(title, text) ==
    [raised |-> "none", placeholder |-> TRUE,
     fig_samples |-> EmptyFig(title), fig_mean_sd |-> EmptyFig(title),
     fig_tern |-> EmptyFig(title), summary |-> TextOnly(text)]

Raised(e) ==
    [raised |-> e, placeholder |-> FALSE,
     fig_samples |-> EmptyFig(""), fig_mean_sd |-> EmptyFig(""),
     fig_tern |-> EmptyFig(""), summary |-> TextOnly("")]

update_dashboard(long, stats, meansd, boreholes, formations) ==
    IF ~Truthy(boreholes)
    THEN Placeholder("No data selected", "No data selected")
    ELSE IF StatsKeyError(stats, formations)
    THEN Raised("KeyError")
    ELSE LET dff == Dff(long, boreholes, formations)
             stats_filtered == StatsFiltered(stats, boreholes, formations)
             mean_sd_filtered == MeanSdFiltered(meansd, formations)
         IN  IF dff = <<>> \/ stats_filtered = <<>>
             THEN Placeholder("No data for selection",
                              "No data for selected boreholes/formations")
             ELSE [raised |-> "none", placeholder |-> FALSE,
                   fig_samples |-> FigSamples(mean_sd_filtered),
                   fig_mean_sd |-> FigMeanSd(mean_sd_filtered),
                   fig_tern    |-> FigTern(WithTexture(stats_filtered)),
                   summary     |-> Summary(WithTexture(stats_filtered))]

-----------------------------------------------------------------------------
(* The dashboard: start-up, then any sequence of callback invocations *)

MaxRows == 2

BoreholeIDs == {PyStr("B1"), PyInt(7)}
Formations == {"F1", "F2"}
\* The size-bin column labels of the CSV: two bins, either 2 and 100 um, or
\* a label that is no number and a bin above the sand band.
ColumnLabels == {<<"2", "100">>, <<"n/a", "5000">>}

\* Sample S1 always carries 40 % and 60 %; a row of S2 carries 44 %, 0 % or
\* -44 % in the first bin and nothing in the second, so that S2's total is
\* positive, zero or negative.
SampleReadings == {[SampleName |-> "S1", values |-> <<Num(40), Num(60)>>],
                   [SampleName |-> "S2", values |-> <<Num(44), NaN>>],
                   [SampleName |-> "S2", values |-> <<Num(0), NaN>>],
                   [SampleName |-> "S2", values |-> <<Num(-44), NaN>>]}

RawRows == {[BoreholeID |-> b, Formation |-> f, SampleName |-> s.SampleName,
             depth |-> 0, values |-> s.values] :
               b \in BoreholeIDs, f \in Formations, s \in SampleReadings}

RawTables == [columns : ColumnLabels,
              rows : UNION {[1..n -> RawRows] : n \in 1..MaxRows}]

\* The dropdown values the callbacks are invoked with.  "B9" is a borehole
\* and "F3" a formation that no row of the table carries.
BoreholeSelections ==
    {None, List({}), List({PyStr("B1")}), List({PyInt(7)}), List({PyStr("7")}),
     List({PyStr("B1"), PyStr("7")}), List({PyStr("B9")})}

FormationSelections ==
    {None, List({}), List({"F1"}), List({"F2"}), List({"F1", "F2"}), List({"F3"})}

Idle == [op |-> "none", boreholes |-> None, formations |-> None]
NoRet == [raised |-> "none"]
NoSample == <<>>
NoTex == [Clay |-> 0, Silt |-> 0, Sand |-> 0]

\* The state once the module has been imported.  A start-up that raises
\* leaves no process to serve callbacks: sample_stats(df2) is then empty
\* and the table gives no initial state.
Init ==
    /\ df \in RawTables
    /\ df2 = Melt(df)
    /\ df_stats \in sample_stats(df2)
    /\ mean_sd_df = GroupMeanStd(df2)
    /\ formations_by_borehole = FormationsByBorehole(df2)
    /\ call = Idle
    /\ ret = NoRet
    /\ sample = NoSample
    /\ sort_order = <<>>
    /\ d_vals = NoD
    /\ tex_vals = NoTex

\* UpdateDashboard with line 222's filtered frame stored back in df_stats.
UpdateDashboardInPlace ==
    \E b \in BoreholeSelections, f \in FormationSelections :
        /\ call.op = "none"
        /\ call' = [op |-> "update_dashboard", boreholes |-> b, formations |-> f]
        /\ ret' = update_dashboard(df2, df_stats, mean_sd_df, b, f)
        /\ df_stats' = IF ret'.raised = "none" /\ ~ret'.placeholder
                        THEN [df_stats EXCEPT !.rows =
                                WithTexture(StatsFiltered(df_stats, b, f))]
                        ELSE df_stats
        /\ UNCHANGED <<df, df2, mean_sd_df, formations_by_borehole,
                       sample, sort_order, d_vals, tex_vals>>

\* A callback invocation is served as a whole: the request arrives with its
\* arguments, the function runs to its return (or raise) and the response
\* is then sent, after which the next request is taken.
UpdateFormationOptions ==
    \E b \in BoreholeSelections :
        /\ call.op = "none"
        /\ call' = [op |-> "update_formation_options", boreholes |-> b,
                    formations |-> None]
        /\ ret' = update_formation_options(formations_by_borehole, b)
        /\ UNCHANGED <<df, df2, df_stats, mean_sd_df, formations_by_borehole,
                       sample, sort_order, d_vals, tex_vals>>

UpdateDashboard ==
    \E b \in BoreholeSelections, f \in FormationSelections :
        /\ call.op = "none"
        /\ call' = [op |-> "update_dashboard", boreholes |-> b, formations |-> f]
        /\ ret' = update_dashboard(df2, df_stats, mean_sd_df, b, f)
        /\ UNCHANGED <<df, df2, df_stats, mean_sd_df, formations_by_borehole,
                       sample, sort_order, d_vals, tex_vals>>

Respond ==
    /\ call.op # "none"
    /\ call' = Idle
    /\ ret' = NoRet
    /\ UNCHANGED <<df, df2, df_stats, mean_sd_df, formations_by_borehole,
                   sample, sort_order, d_vals, tex_vals>>

Next == UpdateFormationOptions \/ UpdateDashboard \/ Respond

Spec == Init /\ [][Next]_vars

-----------------------------------------------------------------------------
(* One sample through compute_d_values, as the loop of lines 52-54 calls it *)

MaxReadings == 3

DSizes == {NaN, Num(1), Num(10), Num(100)}
DVolumes == {NaN, Num(0), Num(2), Num(40), Num(58)}

Readings(sizes, volumes) == [Size : sizes, Percent_Volume : volumes]

SamplesUpTo(n, sizes, volumes) ==
    UNION {[1..k -> Readings(sizes, volumes)] : k \in 1..n}

NoTables ==
    /\ df = [columns |-> <<>>, rows |-> <<>>]
    /\ df2 = <<>>
    /\ df_stats = DataFrame(<<>>)
    /\ mean_sd_df = <<>>
    /\ formations_by_borehole = <<>>
    /\ call = Idle
    /\ ret = NoRet

InitD ==
    /\ NoTables
    /\ sample \in SamplesUpTo(MaxReadings, DSizes, DVolumes)
    /\ sort_order = <<>>
    /\ d_vals = NoD
    /\ tex_vals = NoTex

\* lines 53-54: a group with a positive total is handed to compute_d_values
ComputeDValues ==
    /\ call.op = "none"
    /\ IsEligible(sample)
    /\ \E o \in SortOrders(sample) :
          /\ sort_order' = o
          /\ d_vals' = compute_d_values(sample, o)
    /\ call' = [Idle EXCEPT !.op = "compute_d_values"]
    /\ UNCHANGED <<df, df2, df_stats, mean_sd_df, formations_by_borehole, ret,
                   sample, tex_vals>>

\* line 53: a group whose total is not positive is passed over
SkipSample ==
    /\ call.op = "none"
    /\ ~IsEligible(sample)
    /\ call' = [Idle EXCEPT !.op = "skipped"]
    /\ UNCHANGED <<df, df2, df_stats, mean_sd_df, formations_by_borehole, ret,
                   sample, sort_order, d_vals, tex_vals>>

NextD == ComputeDValues \/ SkipSample

SpecD == InitD /\ [][NextD]_vars

-----------------------------------------------------------------------------
(* One sample through texture_fractions *)

MaxTexReadings == 2

TexSizes == {NaN, Num(3), Num(4), Num(62), Num(63), Num(2000), Num(2001)}
TexVolumes == {NaN, Num(0), Num(30), Num(50), Num(-10)}

InitTex ==
    /\ NoTables
    /\ sample \in SamplesUpTo(MaxTexReadings, TexSizes, TexVolumes)
    /\ sort_order = <<>>
    /\ d_vals = NoD
    /\ tex_vals = NoTex

TextureFractions ==
    /\ call.op = "none"
    /\ tex_vals' = texture_fractions(sample)
    /\ call' = [Idle EXCEPT !.op = "texture_fractions"]
    /\ UNCHANGED <<df, df2, df_stats, mean_sd_df, formations_by_borehole, ret,
                   sample, sort_order, d_vals>>

NextTex == TextureFractions

SpecTex == InitTex /\ [][NextTex]_vars

-----------------------------------------------------------------------------
(* Claims about compute_d_values, checked under SpecD *)

ValidPoints == SortedValid(sample, sort_order)
Cum == CumPct(ValidPoints)
SizeAt(i) == Val(ValidPoints[i].Size)

DComputed == call.op = "compute_d_values"

NonDecreasing(s) == \A i \in 1..(Len(s) - 1) : s[i] <= s[i + 1]

\* D is the point at cumulative percent t on the straight line between the
\* two neighbouring points that bracket t.
OnBracketingSegment(t, D) ==
    \A j \in 1..(Len(Cum) - 1) :
        (Cum[j] <= t /\ t < Cum[j + 1]) =>
            D[1] * (Cum[j + 1] - Cum[j]) =
                D[2] * (SizeAt(j) * (Cum[j + 1] - Cum[j])
                          + (SizeAt(j + 1) - SizeAt(j)) * (t - Cum[j]))

S1Example == <<[Size |-> Num(1),   Percent_Volume |-> Num(2)],
               [Size |-> Num(10),  Percent_Volume |-> Num(40)],
               [Size |-> Num(100), Percent_Volume |-> Num(58)]>>

\* C8: for a sample with a positive total whose cumulative Percent_Volume
\* (rows sorted by Size, missing values dropped) is non-decreasing,
\* compute_d_values returns D10 <= D50 <= D90, each on the straight line
\* between the two bracketing (cumulative %, Size) points; the bins
\* (1, 2 %), (10, 40 %), (100, 58 %) give D10 = 2.8 and D50 = 10 + 8/58*90.
DValuesOrdered ==
    (DComputed /\ d_vals.raised = "none" /\ NonDecreasing(Cum)) =>
        /\ FracLe(d_vals.D10, d_vals.D50)
        /\ FracLe(d_vals.D50, d_vals.D90)
        /\ OnBracketingSegment(10, d_vals.D10)
        /\ OnBracketingSegment(50, d_vals.D50)
        /\ OnBracketingSegment(90, d_vals.D90)
        /\ (sample = S1Example =>
              /\ d_vals.D10 = <<14, 5>>
              /\ d_vals.D50 = <<650, 29>>)

\* The worked example has been computed, with three distinct diameters.
DValuesOrderedWitness ==
    /\ DComputed
    /\ sample = S1Example
    /\ d_vals.D10 = <<14, 5>>
    /\ d_vals.D50 # d_vals.D10
    /\ d_vals.D90 # d_vals.D50

MinOf(s) == CHOOSE x \in Range(s) : \A y \in Range(s) : x <= y
MaxOf(s) == CHOOSE x \in Range(s) : \A y \in Range(s) : x >= y

ClampedAt(t, D) ==
    /\ t < MinOf(Cum) => D = <<SizeAt(1), 1>>
    /\ t > MaxOf(Cum) => D = <<SizeAt(Len(Cum)), 1>>

\* C9: on a sample with fewer than two valid points compute_d_values does
\* not fail: one valid point gives that point's Size for D10, D50 and D90,
\* and a percentile below the smallest (above the largest) cumulative
\* percent gives the smallest (largest) Size, never a missing value or an
\* exception.
DValuesClamped ==
    DComputed =>
        /\ Len(ValidPoints) < 2 => d_vals.raised = "none"
        /\ Len(ValidPoints) = 1 =>
              /\ d_vals.D10 = <<SizeAt(1), 1>>
              /\ d_vals.D50 = <<SizeAt(1), 1>>
              /\ d_vals.D90 = <<SizeAt(1), 1>>
        /\ Len(ValidPoints) >= 1 =>
              /\ ClampedAt(10, d_vals.D10)
              /\ ClampedAt(50, d_vals.D50)
              /\ ClampedAt(90, d_vals.D90)

-----------------------------------------------------------------------------
(* Claim about texture_fractions, checked under SpecTex *)

TexComputed == call.op = "texture_fractions"

NonNegative(rows) ==
    \A i \in DOMAIN rows :
        IsNaN(rows[i].Percent_Volume) \/ Val(rows[i].Percent_Volume) >= 0

SizesWithin(rows, lo, hi) ==
    \A i \in DOMAIN rows :
        ~IsNaN(rows[i].Size) /\ lo <= Val(rows[i].Size) /\ Val(rows[i].Size) <= hi

TexTotal == tex_vals.Clay + tex_vals.Silt + tex_vals.Sand

\* What one reading of volume v at size s must contribute to each class.
OneReading(s, v) ==
    LET p == IF IsNaN(v) THEN 0 ELSE Val(v)
    IN  IF IsNaN(s) THEN [Clay |-> 0, Silt |-> 0, Sand |-> 0]
        ELSE IF Val(s) < 4 THEN [Clay |-> p, Silt |-> 0, Sand |-> 0]
        ELSE IF Val(s) < 63 THEN [Clay |-> 0, Silt |-> p, Sand |-> 0]
        ELSE IF Val(s) <= 2000 THEN [Clay |-> 0, Silt |-> 0, Sand |-> p]
        ELSE [Clay |-> 0, Silt |-> 0, Sand |-> 0]

\* C7: texture_fractions puts each reading in at most one class (Clay:
\* Size < 4, Silt: 4 <= Size < 63, Sand: 63 <= Size <= 2000, nothing above
\* 2000 or with a missing Size), a missing Percent_Volume counts 0; so for
\* non-negative volumes summing to at most 100, Clay+Silt+Sand <= 100, with
\* equality to the sample's total when every Size is in [0, 2000].
TextureClasses ==
    TexComputed =>
        /\ tex_vals.Clay = SumSeq([i \in DOMAIN sample |->
               OneReading(sample[i].Size, sample[i].Percent_Volume).Clay])
        /\ tex_vals.Silt = SumSeq([i \in DOMAIN sample |->
               OneReading(sample[i].Size, sample[i].Percent_Volume).Silt])
        /\ tex_vals.Sand = SumSeq([i \in DOMAIN sample |->
               OneReading(sample[i].Size, sample[i].Percent_Volume).Sand])
        /\ (NonNegative(sample) /\ PvSum(sample) <= 100) =>
              /\ TexTotal <= 100
              /\ SizesWithin(sample, 0, 2000) => TexTotal = PvSum(sample)

\* A sample with one reading on the Clay/Silt boundary and one on the
\* Silt/Sand boundary, both counted, has been classified.
TextureClassesWitness ==
    /\ TexComputed
    /\ sample = <<[Size |-> Num(4),  Percent_Volume |-> Num(30)],
                  [Size |-> Num(63), Percent_Volume |-> Num(50)]>>
    /\ tex_vals = [Clay |-> 0, Silt |-> 30, Sand |-> 50]

-----------------------------------------------------------------------------
(* Claims about the dashboard, checked under Spec *)

OptionsServed == call.op = "update_formation_options"
DashboardServed == call.op = "update_dashboard"

IsNoDataFigure(fig, title) == fig.title = title /\ fig.traces = <<>>

IsPlaceholder(r, title, text) ==
    /\ r.raised = "none"
    /\ IsNoDataFigure(r.fig_samples, title)
    /\ IsNoDataFigure(r.fig_mean_sd, title)
    /\ IsNoDataFigure(r.fig_tern, title)
    /\ r.summary.text = text
    /\ r.summary.formations = <<>>

\* C1: with no borehole selected (None or the empty list), update_dashboard
\* returns the "No data selected" placeholder for the three figures and the
\* summary, whatever the formation selection, and update_formation_options
\* returns no options and an empty value; neither raises.
NoBoreholeFailsClosed ==
    /\ (DashboardServed /\ (call.boreholes.isNone \/ call.boreholes.items = {})) =>
          IsPlaceholder(ret, "No data selected", "No data selected")
    /\ (OptionsServed /\ (call.boreholes.isNone \/ call.boreholes.items = {})) =>
          (ret.raised = "none" /\ ret.options = <<>> /\ ret.value = <<>>)

\* The empty list of boreholes with a formation selected, on a table whose
\* SampleStats is not empty, has been answered with the placeholder.
NoBoreholeFailsClosedWitness ==
    /\ DashboardServed
    /\ call.boreholes = List({})
    /\ call.formations = List({"F1"})
    /\ \E i \in DOMAIN df_stats.rows : df_stats.rows[i].Formation = "F1"
    /\ ret.placeholder

\* The long-form rows that pass the borehole and formation selections.
PassingRows ==
    {i \in DOMAIN df2 :
        /\ \E b \in call.boreholes.items : Str(b) = df2[i].BoreholeID
        /\ (call.formations.isNone \/ call.formations.items = {}
              \/ df2[i].Formation \in call.formations.items)}

\* C2: the per-(Formation, Size) mean and standard deviation update_dashboard
\* draws are those of the long-form rows that pass the borehole and
\* formation selections, and of no other row.
MeanSdOverFilteredRows ==
    (DashboardServed /\ ret.raised = "none" /\ ~ret.placeholder) =>
        MeanSdFiltered(mean_sd_df, call.formations)
            = GroupMeanStd(Dff(df2, call.boreholes, call.formations))

\* total Percent_Volume of a sample over all its readings
SampleTotal(name) == PvSum(SampleGroup(df2, name))

\* C3: for a non-empty borehole selection, the SampleNames of stats_filtered
\* are exactly the SampleNames with a reading in dff and a total > 0.
StatsMatchLongTable ==
    (DashboardServed /\ call.boreholes.items # {} /\ ret.raised = "none") =>
        {r.SampleName : r \in Range(StatsFiltered(df_stats, call.boreholes, call.formations))}
            = {n \in {df2[i].SampleName : i \in PassingRows} : SampleTotal(n) > 0}

\* formations seen on a reading of a selected borehole
ObservedFormations ==
    {df2[i].Formation : i \in {k \in DOMAIN df2 :
        \E b \in call.boreholes.items : Str(b) = df2[k].BoreholeID}}

\* C4: for a non-empty borehole selection, the options are exactly the
\* formations observed on a reading of a selected borehole, each once, in
\* ascending order, and the selected value is that same list.
FormationOptionsExact ==
    (OptionsServed /\ call.boreholes.items # {}) =>
        /\ ret.raised = "none"
        /\ Range(ret.value) = ObservedFormations
        /\ \A i \in 1..(Len(ret.value) - 1) :
              StrRank(ret.value[i]) < StrRank(ret.value[i + 1])
        /\ Len(ret.options) = Len(ret.value)
        /\ \A i \in DOMAIN ret.options :
              ret.options[i] = [label |-> ret.value[i], value |-> ret.value[i]]

\* Two boreholes, whose formations are listed in descending order in the
\* table, the second borehole given by the text of its number: the options
\* are the union, ascending, and the table holds a formation of neither.
FormationOptionsExactWitness ==
    /\ OptionsServed
    /\ call.boreholes = List({PyStr("B1"), PyStr("7")})
    /\ Len(df.rows) = 2
    /\ df.rows[1].BoreholeID = PyStr("B1") /\ df.rows[1].Formation = "F2"
    /\ df.rows[2].BoreholeID = PyInt(7) /\ df.rows[2].Formation = "F1"
    /\ ret.value = <<"F1", "F2">>

\* C5: for a non-empty borehole selection, when the selections match no
\* long-form row or no SampleStats row, update_dashboard returns the
\* "No data for selection" placeholder for every output and does not raise,
\* also on a table in which no sample has a positive total.
NoDataNeverRaises ==
    (/\ DashboardServed
     /\ call.boreholes.items # {}
     /\ \/ PassingRows = {}
        \/ StatsFiltered(df_stats, call.boreholes, call.formations) = <<>>) =>
        IsPlaceholder(ret, "No data for selection",
                      "No data for selected boreholes/formations")

\* C6: no callback invocation changes the long table, SampleStats, the
\* group table or the borehole lookup.
TablesReadOnly ==
    [][/\ df2' = df2
       /\ df_stats' = df_stats
       /\ mean_sd_df' = mean_sd_df
       /\ formations_by_borehole' = formations_by_borehole]_vars

\* update_dashboard has run to its last line (figures drawn, ternary rows
\* filtered) on a table with two SampleStats rows, one of them outside the
\* selection.
TablesReadOnlyWitness ==
    /\ DashboardServed
    /\ ret.raised = "none"
    /\ ~ret.placeholder
    /\ Len(df_stats.rows) = 2
    /\ ret.summary.samples = 1

RawValueSum(values) ==
    SumSeq([c \in DOMAIN values |-> IF IsNaN(values[c]) THEN 0 ELSE Val(values[c])])

RawRowsOf(name) == {r \in DOMAIN df.rows : df.rows[r].SampleName = name}

RawTotal(name) ==
    LET S == RawRowsOf(name)
        rs == SortedInts(S)
    IN  SumSeq([k \in DOMAIN rs |-> RawValueSum(df.rows[rs[k]].values)])

FirstRawRow(name) ==
    df.rows[CHOOSE r \in RawRowsOf(name) : \A q \in RawRowsOf(name) : r <= q]

\* C10: SampleStats holds exactly one row per SampleName whose total
\* Percent_Volume (missing values as 0) is > 0, none for a total that is
\* zero or negative, and each row carries the Formation and BoreholeID of
\* the sample's first reading.
SampleStatsExact ==
    LET rows == df_stats.rows
    IN  /\ {rows[i].SampleName : i \in DOMAIN rows}
             = {n \in {df.rows[r].SampleName : r \in DOMAIN df.rows} : RawTotal(n) > 0}
        /\ \A i, j \in DOMAIN rows : rows[i].SampleName = rows[j].SampleName => i = j
        /\ \A i \in DOMAIN rows :
              /\ rows[i].Formation = FirstRawRow(rows[i].SampleName).Formation
              /\ rows[i].BoreholeID = Str(FirstRawRow(rows[i].SampleName).BoreholeID)

\* Start-up has completed on a table with a sample of total zero, left out,
\* next to a sample of positive total, kept.
SampleStatsExactWitness ==
    /\ call.op = "none"
    /\ Len(df.rows) = 2
    /\ RawTotal("S2") = 0
    /\ RawTotal("S1") > 0
    /\ Len(df_stats.rows) = 1
    /\ df_stats.rows[1].SampleName = "S1"

====
